---- MODULE Spec2Model ----
(***************************************************************************)
(* Model of the ProductForm component                                      *)
(* (src/components/inventory/product-form.tsx).                            *)
(*                                                                         *)
(* One form instance is a state machine: the React state (loading,         *)
(* showWholesale, itemType), the form library's field values and errors,   *)
(* the active tab, the rendered view, and the submit handlers that are     *)
(* suspended at an await (the resolver's validation, then the              *)
(* createProduct / updateProduct call).  Every event handler runs to its   *)
(* next await as one step; other events may run while it is suspended.     *)
(***************************************************************************)
EXTENDS Integers, Sequences, FiniteSets, TLC

VARIABLES
    initialData,    \* prop: the existing record, field -> JS value
    productId,      \* prop: JS value (undefined or a string)
    loading,        \* React state, line 39
    showWholesale,  \* React state, line 40
    itemType,       \* React state, line 41
    form,           \* the form library's field values
    errors,         \* the form library's field errors (set of field names)
    activeTab,      \* state of the uncontrolled Tabs widget, line 152
    view,           \* what the last render shows
    submits,        \* the suspended submit handlers, in click order
    calls,          \* createProduct / updateProduct calls the last step started
    effects,        \* toast, router, form.reset and console calls the last step
                    \* made, in order
    edits,          \* number of field edits made so far
    past            \* router calls made so far ("back", "push"), where tracked

vars == <<initialData, productId, loading, showWholesale, itemType, form,
          errors, activeTab, view, submits, calls, effects, edits, past>>

----------------------------------------------------------------------------
(* Bounds of the exploration.                                              *)

MaxPending == 2     \* submit handlers suspended at the same time
MaxEdits == 1       \* field edits

----------------------------------------------------------------------------
(* JavaScript values, written as strings: a string is itself, the number  *)
(* n is "n:<n>", undefined is "undefined" and the Date made from the       *)
(* string s is "date:<s>".                                                 *)

Undef == "undefined"
Str(s) == s
Num(n) == "n:" \o ToString(n)
\* new Date(v), line 63
DateOf(v) == "date:" \o v

\* JS truthiness: undefined, '' and 0 are falsy.
Truthy(v) == v \notin {Undef, Str(""), Num(0)}

\* a || b
Or(a, b) == IF Truthy(a) THEN a ELSE b

----------------------------------------------------------------------------
(* The form's fields.                                                      *)

Fields ==
    {"name", "description", "sku", "hsn_code", "price", "cost_price",
     "stock_quantity", "gst_rate", "unit", "low_stock_threshold", "type",
     "image_url", "barcode", "category", "tax_type", "purchase_tax_type",
     "discount", "discount_type", "wholesale_price", "opening_stock_date"}

\* the || fallback of each field that has one (lines 44-61)
Fallback ==
    [name |-> Str(""), description |-> Str(""), sku |-> Str(""),
     hsn_code |-> Str(""), price |-> Num(0), cost_price |-> Num(0),
     stock_quantity |-> Num(0), gst_rate |-> Num(0), unit |-> Str("pcs"),
     low_stock_threshold |-> Num(5), type |-> Str("product"),
     image_url |-> Str(""), barcode |-> Str(""), category |-> Str(""),
     tax_type |-> Str("exclusive"), purchase_tax_type |-> Str("exclusive"),
     discount |-> Num(0), discount_type |-> Str("percentage"),
     wholesale_price |-> Undef, opening_stock_date |-> Undef]

\* initialData?.f : undefined when the record, or the field, is absent
Get(d, f) == d[f]

defaultValues(d) ==
    [f \in Fields |->
        IF f = "opening_stock_date"
        THEN IF Truthy(Get(d, f)) THEN DateOf(Get(d, f)) ELSE Undef
        ELSE Or(Get(d, f), Fallback[f])]

\* useState(initialData?.type || 'product'), line 41
initialItemType(d) == Or(Get(d, "type"), Str("product"))

----------------------------------------------------------------------------
(* Inputs.                                                                 *)

NoRecord == [f \in Fields |-> Undef]

\* an existing record that supplies every field with a truthy value
FullRecord(type) ==
    [name |-> Str("Pen"), description |-> Str("Blue pen"), sku |-> Str("S1"),
     hsn_code |-> Str("9608"), price |-> Num(10), cost_price |-> Num(6),
     stock_quantity |-> Num(40), gst_rate |-> Num(12), unit |-> Str("box"),
     low_stock_threshold |-> Num(3), type |-> Str(type),
     image_url |-> Str("pen.png"), barcode |-> Str("890"),
     category |-> Str("stationery"), tax_type |-> Str("inclusive"),
     purchase_tax_type |-> Str("inclusive"), discount |-> Num(2),
     discount_type |-> Str("flat"), wholesale_price |-> Num(8),
     opening_stock_date |-> Str("2024-01-01")]

ProductIds == {Undef, Str(""), Str("p1")}

\* the props of the form instances explored: a new item, a new item with an
\* empty id, an existing item, and a new item prefilled from a record
Props ==
    {[initialData |-> NoRecord, productId |-> Undef],
     [initialData |-> NoRecord, productId |-> Str("")],
     [initialData |-> FullRecord("service"), productId |-> Str("p1")],
     [initialData |-> FullRecord("service"), productId |-> Undef]}

\* error.message of a rejected call
ErrorMessages == {Undef, Str(""), Str("Network error")}

\* what the user enters into a field: one value per field that differs from
\* every fallback and from every record used; the name may also be cleared
TypedValue ==
    [name |-> Str("Ink"), description |-> Str("Black ink"), sku |-> Str("S2"),
     hsn_code |-> Str("3215"), price |-> Num(25), cost_price |-> Num(15),
     stock_quantity |-> Num(7), gst_rate |-> Num(18), unit |-> Str("kg"),
     low_stock_threshold |-> Num(9), type |-> Str("product"),
     image_url |-> Str(""), barcode |-> Str(""),
     category |-> Str("electronics"), tax_type |-> Str("inclusive2"),
     purchase_tax_type |-> Str("inclusive2"), discount |-> Num(4),
     discount_type |-> Str("flat2"), wholesale_price |-> Num(20),
     opening_stock_date |-> DateOf("2025-05-05")]

UserValues(f) == IF f = "name" THEN {TypedValue[f], Str("")} ELSE {TypedValue[f]}

----------------------------------------------------------------------------
(* Rendering (the JSX returned at lines 114-562).                          *)

TabNames == {"general", "pricing", "stock"}

\* the TabsContent each FormField is placed in; image_url, barcode and type
\* have no input
TabOf ==
    [name |-> "general", hsn_code |-> "general", unit |-> "general",
     category |-> "general", sku |-> "general", description |-> "general",
     price |-> "pricing", tax_type |-> "pricing", discount |-> "pricing",
     discount_type |-> "pricing", wholesale_price |-> "pricing",
     cost_price |-> "pricing", purchase_tax_type |-> "pricing",
     gst_rate |-> "pricing", stock_quantity |-> "stock",
     opening_stock_date |-> "stock", low_stock_threshold |-> "stock"]

InputFields == DOMAIN TabOf

\* Render with a fault: the Stock tab is rendered for every item type
Render_stockAlways(ld, it) ==
    [stockTrigger |-> TRUE,
     stockContent |-> TRUE,
     saveAndNewDisabled |-> ld,
     saveDisabled |-> ld]

Render(ld, it) ==
    [stockTrigger |-> it = "product",
     stockContent |-> it = "product",
     saveAndNewDisabled |-> ld,
     saveDisabled |-> ld]

\* a tab's trigger is in the TabsList
TriggerShown(t) == t = "stock" => view.stockTrigger

\* the input of field f is on screen
FieldShown(f) ==
    /\ f \in InputFields
    /\ activeTab = TabOf[f]
    /\ TabOf[f] = "stock" => view.stockContent
    /\ f = "wholesale_price" => showWholesale

----------------------------------------------------------------------------
(* The validation schema (productSchema, imported at line 18).             *)

InvalidFields(data) ==
    IF data["name"] \notin {Undef, Str("")} THEN {} ELSE {"name"}

----------------------------------------------------------------------------
(* Helpers.                                                                *)

RemoveAt(seq, i) == SubSeq(seq, 1, i - 1) \o SubSeq(seq, i + 1, Len(seq))

Count(seq, x) == Cardinality({i \in DOMAIN seq : seq[i] = x})

Back == <<"router.back", "">>
Refresh == <<"router.refresh", "">>
Push == <<"router.push", "/dashboard/inventory">>
ToastSuccess(m) == <<"toast.success", m>>
ToastError(m) == <<"toast.error", m>>
\* form.reset(...), line 90
Reset == <<"form.reset", "">>
\* console.error(error), line 100: the error is recorded by its message
ConsoleError(msg) == <<"console.error", msg>>

\* the handlers whose createProduct / updateProduct call has not settled
Pending == {i \in DOMAIN submits : submits[i].pc = "calling"}

----------------------------------------------------------------------------
(* Initial state: the component's first render (lines 37-69).              *)

InitWith(props) ==
    /\ \E p \in props : initialData = p.initialData /\ productId = p.productId
    /\ loading = FALSE
    /\ showWholesale = FALSE
    /\ itemType = initialItemType(initialData)
    /\ form = defaultValues(initialData)
    /\ errors = {}
    /\ activeTab = "general"
    /\ view = Render(FALSE, initialItemType(initialData))
    /\ submits = <<>>
    /\ calls = <<>>
    /\ effects = <<>>
    /\ edits = 0
    /\ past = {}

Init == InitWith(Props)

----------------------------------------------------------------------------
(* User events other than submitting.                                      *)

\* handleTypeChange with a fault: switching to service clears the stock count
handleTypeChange_clearsStock(type) ==
    /\ itemType' = type
    /\ form' = [form EXCEPT !["type"] = Str(type),
                            !["stock_quantity"] =
                                IF type = "service" THEN Num(0) ELSE @]
    /\ view' = Render(loading, type)
    /\ calls' = <<>>
    /\ effects' = <<>>
    /\ UNCHANGED <<initialData, productId, loading, showWholesale, errors,
                   activeTab, submits, edits>>

\* handleTypeChange with a fault: the form's type field is not written
handleTypeChange_noSetValue(type) ==
    /\ itemType' = type
    /\ view' = Render(loading, type)
    /\ calls' = <<>>
    /\ effects' = <<>>
    /\ UNCHANGED <<initialData, productId, loading, showWholesale, form, errors,
                   activeTab, submits, edits>>

\* lines 109-112; the Product / Service buttons call it (lines 134, 143)
handleTypeChange(type) ==
    /\ itemType' = type
    /\ form' = [form EXCEPT !["type"] = Str(type)]
    /\ view' = Render(loading, type)
    /\ calls' = <<>>
    /\ effects' = <<>>
    /\ UNCHANGED <<initialData, productId, loading, showWholesale, errors,
                   activeTab, submits, edits>>

\* line 382
ToggleWholesale ==
    /\ showWholesale' = ~showWholesale
    /\ calls' = <<>>
    /\ effects' = <<>>
    /\ UNCHANGED <<initialData, productId, loading, itemType, form, errors,
                   activeTab, view, submits, edits>>

\* a click on a TabsTrigger (lines 154-158)
SelectTab(t) ==
    /\ TriggerShown(t)
    /\ activeTab' = t
    /\ calls' = <<>>
    /\ effects' = <<>>
    /\ UNCHANGED <<initialData, productId, loading, showWholesale, itemType,
                   form, errors, view, submits, edits>>

\* field.onChange(v) of a FormField that is on screen
Edit(f, v) ==
    /\ edits < MaxEdits
    /\ FieldShown(f)
    /\ form' = [form EXCEPT ![f] = v]
    /\ edits' = edits + 1
    /\ calls' = <<>>
    /\ effects' = <<>>
    /\ UNCHANGED <<initialData, productId, loading, showWholesale, itemType,
                   errors, activeTab, view, submits>>

\* Cancel with a fault: the suspended handlers are dropped
Cancel_dropsSubmits ==
    /\ calls' = <<>>
    /\ effects' = <<Back>>
    /\ submits' = <<>>
    /\ UNCHANGED <<initialData, productId, loading, showWholesale, itemType,
                   form, errors, activeTab, view, edits>>

\* the Cancel button, line 550
Cancel ==
    /\ calls' = <<>>
    /\ effects' = <<Back>>
    /\ UNCHANGED <<initialData, productId, loading, showWholesale, itemType,
                   form, errors, activeTab, view, submits, edits>>

----------------------------------------------------------------------------
(* Submitting.                                                             *)

\* form.handleSubmit(onSubmit) / form.handleSubmit(onSaveAndNew), lines 116,
\* 553 and 556: the handler of this render snapshots the field values, starts
\* the resolver and suspends.  onSubmit / onSaveAndNew (lines 106-107) and
\* handleSave close over this render's itemType.
handleSubmit(shouldRedirect) ==
    /\ Len(submits) < MaxPending
    /\ IF shouldRedirect THEN ~view.saveDisabled ELSE ~view.saveAndNewDisabled
    /\ submits' = Append(submits,
            [shouldRedirect |-> shouldRedirect, data |-> form,
             itemType |-> itemType, pc |-> "validating"])
    /\ calls' = <<>>
    /\ effects' = <<>>
    /\ UNCHANGED <<initialData, productId, loading, showWholesale, itemType,
                   form, errors, activeTab, view, edits>>

\* RemoteCall with a fault: the branch tests initialData instead of productId
RemoteCall_byInitialData(submissionData) ==
    IF initialData # NoRecord
    THEN <<[fn |-> "updateProduct", id |-> productId, data |-> submissionData]>>
    ELSE <<[fn |-> "createProduct", id |-> Undef, data |-> submissionData]>>

\* lines 76-82: which action is called, with which arguments
RemoteCall(submissionData) ==
    IF Truthy(productId)
    THEN <<[fn |-> "updateProduct", id |-> productId, data |-> submissionData]>>
    ELSE <<[fn |-> "createProduct", id |-> Undef, data |-> submissionData]>>

\* ValidationFails with a fault: the form has no resolver, so handleSave runs on
\* the rejected snapshot too
ValidationFails_noResolver(i) ==
    /\ submits[i].pc = "validating"
    /\ InvalidFields(submits[i].data) # {}
    /\ errors' = {}
    /\ loading' = TRUE
    /\ view' = Render(TRUE, itemType)
    /\ calls' = RemoteCall(
            [submits[i].data EXCEPT !["type"] = Str(submits[i].itemType)])
    /\ effects' = <<>>
    /\ submits' = [submits EXCEPT ![i].pc = "calling"]
    /\ UNCHANGED <<initialData, productId, showWholesale, itemType, form,
                   activeTab, edits>>

\* the resolver (lines 66-69) rejects the snapshot: the errors are recorded
\* and onValid (handleSave) is not called
ValidationFails(i) ==
    /\ submits[i].pc = "validating"
    /\ InvalidFields(submits[i].data) # {}
    /\ errors' = InvalidFields(submits[i].data)
    /\ submits' = RemoveAt(submits, i)
    /\ calls' = <<>>
    /\ effects' = <<>>
    /\ UNCHANGED <<initialData, productId, loading, showWholesale, itemType,
                   form, activeTab, view, edits>>

\* the resolver accepts the snapshot and handleSave runs to its await
\* (lines 71-80)
handleSaveBegin(i) ==
    /\ submits[i].pc = "validating"
    /\ InvalidFields(submits[i].data) = {}
    /\ errors' = {}
    /\ loading' = TRUE
    /\ view' = Render(TRUE, itemType)
    /\ calls' = RemoteCall(
            [submits[i].data EXCEPT !["type"] = Str(submits[i].itemType)])
    /\ effects' = <<>>
    /\ submits' = [submits EXCEPT ![i].pc = "calling"]
    /\ UNCHANGED <<initialData, productId, showWholesale, itemType, form,
                   activeTab, edits>>

\* lines 78 and 81
\* SuccessMessage with a fault: the create text is used for updates too
SuccessMessage_alwaysCreated == "Item created successfully"

SuccessMessage ==
    IF Truthy(productId) THEN "Item updated successfully"
    ELSE "Item created successfully"

\* handleSaveRedirect with a fault: the navigation precedes the refresh
handleSaveRedirect_pushFirst(i) ==
    /\ submits[i].pc = "calling"
    /\ submits[i].shouldRedirect
    /\ effects' = <<ToastSuccess(SuccessMessage), Push, Refresh>>
    /\ loading' = FALSE
    /\ view' = Render(FALSE, itemType)
    /\ submits' = RemoveAt(submits, i)
    /\ calls' = <<>>
    /\ UNCHANGED <<initialData, productId, showWholesale, itemType, form,
                   errors, activeTab, edits>>

\* the call resolved and shouldRedirect is true: lines 78/81, 84-87, 102
handleSaveRedirect(i) ==
    /\ submits[i].pc = "calling"
    /\ submits[i].shouldRedirect
    /\ effects' = <<ToastSuccess(SuccessMessage), Refresh, Push>>
    /\ loading' = FALSE
    /\ view' = Render(FALSE, itemType)
    /\ submits' = RemoveAt(submits, i)
    /\ calls' = <<>>
    /\ UNCHANGED <<initialData, productId, showWholesale, itemType, form,
                   errors, activeTab, edits>>

\* handleSaveReset with a fault: the redirect is not skipped
handleSaveReset_redirects(i) ==
    /\ submits[i].pc = "calling"
    /\ ~submits[i].shouldRedirect
    /\ effects' = <<ToastSuccess(SuccessMessage), Refresh, Push, Reset>>
    /\ form' = [defaultValues(initialData)
                    EXCEPT !["type"] = Str(submits[i].itemType)]
    /\ errors' = {}
    /\ itemType' = submits[i].itemType
    /\ loading' = FALSE
    /\ view' = Render(FALSE, submits[i].itemType)
    /\ submits' = RemoveAt(submits, i)
    /\ calls' = <<>>
    /\ UNCHANGED <<initialData, productId, showWholesale, activeTab, edits>>

\* handleSaveReset with a fault: the reset keeps the entered values
handleSaveReset_keepsValues(i) ==
    /\ submits[i].pc = "calling"
    /\ ~submits[i].shouldRedirect
    /\ effects' = <<ToastSuccess(SuccessMessage), Refresh, Reset>>
    /\ form' = [form EXCEPT !["type"] = Str(submits[i].itemType)]
    /\ errors' = {}
    /\ itemType' = submits[i].itemType
    /\ loading' = FALSE
    /\ view' = Render(FALSE, submits[i].itemType)
    /\ submits' = RemoveAt(submits, i)
    /\ calls' = <<>>
    /\ UNCHANGED <<initialData, productId, showWholesale, activeTab, edits>>

\* the call resolved and shouldRedirect is false: lines 78/81, 84, 88-97,
\* 102.  itemType and defaultValues are those of the render that was clicked.
handleSaveReset(i) ==
    /\ submits[i].pc = "calling"
    /\ ~submits[i].shouldRedirect
    /\ effects' = <<ToastSuccess(SuccessMessage), Refresh, Reset>>
    /\ form' = [defaultValues(initialData)
                    EXCEPT !["type"] = Str(submits[i].itemType)]
    /\ errors' = {}
    /\ itemType' = submits[i].itemType
    /\ loading' = FALSE
    /\ view' = Render(FALSE, submits[i].itemType)
    /\ submits' = RemoveAt(submits, i)
    /\ calls' = <<>>
    /\ UNCHANGED <<initialData, productId, showWholesale, activeTab, edits>>

\* handleSaveCatch with a fault: the catch block resets the form
handleSaveCatch_resets(i, msg) ==
    /\ submits[i].pc = "calling"
    /\ effects' = <<ToastError(Or(msg, Str("Something went wrong"))),
                    ConsoleError(msg)>>
    /\ form' = [defaultValues(initialData) EXCEPT !["type"] = Str(itemType)]
    /\ loading' = FALSE
    /\ view' = Render(FALSE, itemType)
    /\ submits' = RemoveAt(submits, i)
    /\ calls' = <<>>
    /\ UNCHANGED <<initialData, productId, showWholesale, itemType, errors,
                   activeTab, edits>>

\* handleSaveCatch with a fault: the message is shown without a fallback
handleSaveCatch_rawMessage(i, msg) ==
    /\ submits[i].pc = "calling"
    /\ effects' = <<ToastError(msg), ConsoleError(msg)>>
    /\ loading' = FALSE
    /\ view' = Render(FALSE, itemType)
    /\ submits' = RemoveAt(submits, i)
    /\ calls' = <<>>
    /\ UNCHANGED <<initialData, productId, showWholesale, itemType, form,
                   errors, activeTab, edits>>

\* handleSaveCatch with a fault: loading is cleared in the try block only
handleSaveCatch_noFinally(i, msg) ==
    /\ submits[i].pc = "calling"
    /\ effects' = <<ToastError(Or(msg, Str("Something went wrong"))),
                    ConsoleError(msg)>>
    /\ view' = Render(loading, itemType)
    /\ submits' = RemoveAt(submits, i)
    /\ calls' = <<>>
    /\ UNCHANGED <<initialData, productId, loading, showWholesale, itemType,
                   form, errors, activeTab, edits>>

\* the call rejected with an error whose message is msg: lines 98-103
handleSaveCatch(i, msg) ==
    /\ submits[i].pc = "calling"
    /\ effects' = <<ToastError(Or(msg, Str("Something went wrong"))),
                    ConsoleError(msg)>>
    /\ loading' = FALSE
    /\ view' = Render(FALSE, itemType)
    /\ submits' = RemoveAt(submits, i)
    /\ calls' = <<>>
    /\ UNCHANGED <<initialData, productId, showWholesale, itemType, form,
                   errors, activeTab, edits>>

----------------------------------------------------------------------------
(* Specifications.                                                         *)

\* the settling of a suspended handler
Settle ==
    \/ \E i \in DOMAIN submits : ValidationFails(i)
    \/ \E i \in DOMAIN submits : handleSaveBegin(i)
    \/ \E i \in DOMAIN submits : handleSaveRedirect(i)
    \/ \E i \in DOMAIN submits : handleSaveReset(i)
    \/ \E i \in DOMAIN submits : \E msg \in ErrorMessages : handleSaveCatch(i, msg)

\* the component: every event in every order
Next ==
    \/ \E type \in {"product", "service"} : handleTypeChange(type) /\ UNCHANGED past
    \/ ToggleWholesale /\ UNCHANGED past
    \/ \E t \in TabNames : SelectTab(t) /\ UNCHANGED past
    \/ \E f \in InputFields : \E v \in UserValues(f) : Edit(f, v) /\ UNCHANGED past
    \/ Cancel /\ UNCHANGED past
    \/ \E shouldRedirect \in BOOLEAN : handleSubmit(shouldRedirect) /\ UNCHANGED past
    \/ Settle /\ UNCHANGED past

Spec == Init /\ [][Next]_vars

\* concurrent submits: the user stays on the General tab and edits the name
NextSubmit ==
    \/ \E type \in {"product", "service"} : handleTypeChange(type) /\ UNCHANGED past
    \/ \E v \in UserValues("name") : Edit("name", v) /\ UNCHANGED past
    \/ Cancel /\ UNCHANGED past
    \/ \E shouldRedirect \in BOOLEAN : handleSubmit(shouldRedirect) /\ UNCHANGED past
    \/ \E i \in DOMAIN submits : ValidationFails(i) /\ UNCHANGED past
    \/ \E i \in DOMAIN submits : handleSaveBegin(i) /\ UNCHANGED past
    \/ \E i \in DOMAIN submits : handleSaveRedirect(i) /\ UNCHANGED past
    \/ \E i \in DOMAIN submits : handleSaveReset(i) /\ UNCHANGED past
    \/ \E i \in DOMAIN submits : \E msg \in ErrorMessages : handleSaveCatch(i, msg) /\ UNCHANGED past

SpecSubmit == Init /\ [][NextSubmit]_vars

\* the whole form, one submit at a time
NextForm ==
    \/ \E type \in {"product", "service"} : handleTypeChange(type) /\ UNCHANGED past
    \/ ToggleWholesale /\ UNCHANGED past
    \/ \E t \in TabNames : SelectTab(t) /\ UNCHANGED past
    \/ \E f \in InputFields : \E v \in UserValues(f) : Edit(f, v) /\ UNCHANGED past
    \/ Cancel /\ UNCHANGED past
    \/ \E shouldRedirect \in BOOLEAN : submits = <<>> /\ handleSubmit(shouldRedirect) /\ UNCHANGED past
    \/ \E i \in DOMAIN submits : ValidationFails(i) /\ UNCHANGED past
    \/ \E i \in DOMAIN submits : handleSaveBegin(i) /\ UNCHANGED past
    \/ \E i \in DOMAIN submits : handleSaveRedirect(i) /\ UNCHANGED past
    \/ \E i \in DOMAIN submits : handleSaveReset(i) /\ UNCHANGED past
    \/ \E i \in DOMAIN submits : \E msg \in ErrorMessages : handleSaveCatch(i, msg) /\ UNCHANGED past

SpecForm == Init /\ [][NextForm]_vars

\* the first render, for every shape of record: every field of a full record
\* in turn absent, or holding the falsy value of its kind
NumberFields ==
    {"price", "cost_price", "stock_quantity", "gst_rate",
     "low_stock_threshold", "discount", "wholesale_price"}

FalsyOf(f) == IF f \in NumberFields THEN Num(0) ELSE Str("")

DefaultsRecords ==
    {NoRecord, FullRecord("product"), FullRecord("service")}
    \cup UNION {{[FullRecord("product") EXCEPT ![f] = Undef],
                 [FullRecord("product") EXCEPT ![f] = FalsyOf(f)]} : f \in Fields}

InitDefaults ==
    InitWith({[initialData |-> r, productId |-> id] :
                r \in DefaultsRecords, id \in ProductIds})

NextDefaults ==
    \/ ToggleWholesale /\ UNCHANGED past
    \/ \E t \in TabNames : SelectTab(t) /\ UNCHANGED past

SpecDefaults == InitDefaults /\ [][NextDefaults]_vars

\* concurrent submits and Cancel, with the router calls made so far recorded
Track ==
    past' = past \cup {"back" : k \in {j \in DOMAIN effects' : effects'[j] = Back}}
                 \cup {"push" : k \in {j \in DOMAIN effects' : effects'[j] = Push}}

NextHistory ==
    \/ \E type \in {"product", "service"} : handleTypeChange(type) /\ Track
    \/ Cancel /\ Track
    \/ \E shouldRedirect \in BOOLEAN : handleSubmit(shouldRedirect) /\ Track
    \/ \E i \in DOMAIN submits : ValidationFails(i) /\ Track
    \/ \E i \in DOMAIN submits : handleSaveBegin(i) /\ Track
    \/ \E i \in DOMAIN submits : handleSaveRedirect(i) /\ Track
    \/ \E i \in DOMAIN submits : handleSaveReset(i) /\ Track
    \/ \E i \in DOMAIN submits : \E msg \in ErrorMessages : handleSaveCatch(i, msg) /\ Track

SpecHistory == Init /\ [][NextHistory]_vars

\* the same steps, in which every suspended handler is eventually resumed:
\* the validation and the remote call settle, and their continuations run
SpecLive == Init /\ [][NextHistory]_vars /\ WF_vars(Settle /\ Track)

----------------------------------------------------------------------------
(* Steps, as the properties below recognise them.                          *)

\* handler i leaves the list of suspended handlers
Finishes(i) == submits' = RemoveAt(submits, i)

\* handler i passes from validation to its remote call
Begins(i) ==
    /\ submits[i].pc = "validating"
    /\ submits' = [submits EXCEPT ![i].pc = "calling"]

\* handler i's call completes with a success / an error notification
Succeeds(i) ==
    /\ i \in Pending
    /\ Finishes(i)
    /\ effects' # <<>>
    /\ effects'[1][1] = "toast.success"

Fails(i) ==
    /\ i \in Pending
    /\ Finishes(i)
    /\ effects' # <<>>
    /\ effects'[1][1] = "toast.error"

\* every field but type holds the value the form was created with
FieldsAtDefault(fm) ==
    \A f \in Fields \ {"type"} : fm[f] = defaultValues(initialData)[f]

----------------------------------------------------------------------------
(* Properties.                                                             *)

\* C1: at most one createProduct / updateProduct call is pending at any
\* time, under every interleaving of clicks, validations and completions.
C1_AtMostOnePending == Cardinality(Pending) <= 1

\* C2: a submit whose values fail validation makes no call, records a field
\* error, leaves loading as it was (false, unless another submit's call is in
\* flight) and the form values unchanged, and triggers no notification,
\* refresh or navigation.
C2_InvalidSubmitBlocked ==
    [][\A i \in DOMAIN submits :
          ( /\ submits[i].pc = "validating"
            /\ InvalidFields(submits[i].data) # {}
            /\ (Finishes(i) \/ Begins(i)) )
          => ( /\ Finishes(i)
               /\ calls' = <<>>
               /\ errors' # {}
               /\ loading' = loading
               /\ (Pending = {} => ~loading')
               /\ form' = form
               /\ itemType' = itemType
               /\ effects' = <<>> )]_vars

C2_Witness ==
    /\ errors = {"name"}
    /\ form["name"] = Str("")
    /\ ~loading
    /\ submits = <<>>
    /\ calls = <<>>
    /\ effects = <<>>

\* C3: every validated submit starts exactly one remote call, updateProduct
\* with the product id when the form has a (non-empty) id and createProduct
\* otherwise; no other step starts a call; the id never changes.
C3_OneCallPerValidSubmit ==
    [][ /\ \A i \in DOMAIN submits :
             ( /\ submits[i].pc = "validating"
               /\ InvalidFields(submits[i].data) = {}
               /\ (Finishes(i) \/ Begins(i)) )
             => ( /\ Begins(i)
                  /\ Len(calls') = 1
                  /\ IF productId \notin {Undef, Str("")}
                     THEN calls'[1].fn = "updateProduct" /\ calls'[1].id = productId
                     ELSE calls'[1].fn = "createProduct" )
        /\ (~ \E i \in DOMAIN submits : Begins(i)) => calls' = <<>>
        /\ productId' = productId ]_vars

\* an updateProduct call started after a Save & New reset: the name was
\* edited, and the form is back at its reset values
C3_Witness ==
    /\ Len(calls) = 1
    /\ calls[1].fn = "updateProduct"
    /\ edits > 0
    /\ FieldsAtDefault(form)

\* C4: a step navigates to the inventory list exactly once when it completes
\* a successful Save, and never otherwise (failed call, failed validation,
\* Save & New).
C4_RedirectOnlyAfterSuccessfulSave ==
    [][Count(effects', Push) =
          IF \E i \in DOMAIN submits : Succeeds(i) /\ submits[i].shouldRedirect
          THEN 1 ELSE 0]_vars

C4_Witness ==
    /\ Count(effects, Push) = 1
    /\ effects[1][1] = "toast.success"

\* C5: after a successful Save & New every field other than type holds its
\* reset value, and the form does not navigate.
C5_SaveAndNewResetsFields ==
    [][\A i \in DOMAIN submits :
          (Succeeds(i) /\ ~submits[i].shouldRedirect)
          => (FieldsAtDefault(form') /\ Count(effects', Push) = 0)]_vars

\* just after a successful Save & New of a form the user had typed into
C5_Witness ==
    /\ effects = <<ToastSuccess(SuccessMessage), Refresh, Reset>>
    /\ edits > 0
    /\ FieldsAtDefault(form)

\* C6: a successful Save & New leaves the item type that was selected just
\* before the call completed, in the toggle state and in the type field.
C6_ResetKeepsCurrentType ==
    [][\A i \in DOMAIN submits :
          (Succeeds(i) /\ ~submits[i].shouldRedirect)
          => (itemType' = itemType /\ form'["type"] = Str(itemType))]_vars

\* C7: a failed call leaves every form field and the item type as they were,
\* and triggers no refresh and no navigation.
C7_FailureKeepsForm ==
    [][\A i \in DOMAIN submits :
          Fails(i)
          => ( /\ form' = form
               /\ itemType' = itemType
               /\ Count(effects', Refresh) = 0
               /\ Count(effects', Push) = 0 )]_vars

\* just after a failed call, the typed value is still in the form
C7_Witness ==
    /\ effects # <<>>
    /\ effects[1][1] = "toast.error"
    /\ \E f \in InputFields : form[f] = TypedValue[f]
    /\ ~FieldsAtDefault(form)

\* C8: the Stock tab's trigger and content are rendered iff the selected item
\* type is 'product'.
C8_StockTabIffProduct ==
    /\ view.stockTrigger = (itemType = "product")
    /\ view.stockContent = (itemType = "product")

\* the form opened on a product, and 'service' is now selected
C8_Witness ==
    /\ initialItemType(initialData) = "product"
    /\ itemType = "service"
    /\ ~view.stockTrigger
    /\ ~view.stockContent

\* C9: while a call is pending, loading is true and both submit buttons are
\* disabled.
C9_PendingImpliesLoading ==
    Pending # {} => (loading /\ view.saveDisabled /\ view.saveAndNewDisabled)

\* C10: a form created from a record holds, in every field the record
\* supplies, the record's value (its Date for opening_stock_date), and a
\* default only in the fields the record does not supply.
C10_FormEqualsRecord ==
    \A f \in Fields :
        IF Get(initialData, f) = Undef
        THEN form[f] = Fallback[f]
        ELSE form[f] = IF f = "opening_stock_date"
                       THEN DateOf(Get(initialData, f))
                       ELSE Get(initialData, f)

\* C11: once a Save has succeeded (the form has navigated to the inventory
\* list), no further createProduct / updateProduct call is started.
C11_NoCallAfterRedirect ==
    [][("push" \in past) => calls' = <<>>]_vars

\* the notifications among a step's effects
Toasts(seq) ==
    {j \in DOMAIN seq : seq[j][1] \in {"toast.success", "toast.error"}}

\* C12: a completed call produces exactly one notification, a success one
\* with the text of its kind (update / create) or an error one, never both;
\* the step that notifies starts no call (a failed call is not retried), and
\* no other step notifies.
C12_OneNotificationPerCall ==
    [][ /\ \A i \in Pending :
             Finishes(i)
             => /\ Cardinality(Toasts(effects')) = 1
                /\ \/ /\ effects'[1] = ToastSuccess(
                            IF productId \notin {Undef, Str("")}
                            THEN "Item updated successfully"
                            ELSE "Item created successfully")
                      /\ Count(effects', Refresh) = 1
                      /\ \A j \in DOMAIN effects' : effects'[j][1] # "console.error"
                   \/ /\ effects'[1][1] = "toast.error"
                      /\ Count(effects', Refresh) = 0
                      /\ effects'[2][1] = "console.error"
        /\ Toasts(effects') # {}
             => (calls' = <<>> /\ \E i \in Pending : Finishes(i)) ]_vars

\* just after a failed updateProduct call: one error notification, no call
C12_Witness ==
    /\ Cardinality(Toasts(effects)) = 1
    /\ effects[1][1] = "toast.error"
    /\ productId = Str("p1")
    /\ calls = <<>>

\* C13: the step that completes a submit's call sets loading back to false,
\* on success and on failure, for Save and Save & New; loading is false
\* whenever no call is pending; and loading never stays true forever.
C13_LoadingClears ==
    /\ [][\A i \in Pending : Finishes(i) => ~loading']_vars
    /\ [](Pending = {} => ~loading)
    /\ (loading ~> ~loading)

\* just after a failed Save & New: nothing is pending and loading is false
C13_Witness ==
    /\ effects # <<>>
    /\ effects[1][1] = "toast.error"
    /\ submits = <<>>
    /\ ~loading

\* C14: the type field of the data passed to createProduct / updateProduct
\* equals the item type selected in the toggle at the moment the call is made.
C14_CallCarriesCurrentType ==
    [][\A i \in DOMAIN submits :
          Begins(i) => (calls' # <<>> /\ calls'[1].data["type"] = Str(itemType'))]_vars

\* C15: a successful call refreshes the view exactly once, after the success
\* notification and before the navigation (Save) or the form reset
\* (Save & New); a failed call never refreshes the view.
C15_RefreshOnceBetween ==
    [][\A i \in Pending :
          /\ Succeeds(i)
             => /\ Len(effects') = 3
                /\ effects'[2] = Refresh
                /\ Count(effects', Refresh) = 1
                /\ effects'[3] = (IF submits[i].shouldRedirect THEN Push ELSE Reset)
          /\ Fails(i) => Count(effects', Refresh) = 0]_vars

\* just after a successful Save: notification, refresh, navigation
C15_Witness ==
    /\ Len(effects) = 3
    /\ effects[1][1] = "toast.success"
    /\ effects[2] = Refresh
    /\ effects[3] = Push

\* C16: a failed call shows exactly one error notification, with the
\* failure's message if that is non-empty and 'Something went wrong'
\* otherwise (an absent or empty message).
C16_ErrorMessageOrFallback ==
    [][\A i \in Pending :
          (Finishes(i) /\ effects' # <<>> /\ effects'[1][1] # "toast.success")
          => /\ Len(effects') = 2
             /\ effects'[2][1] = "console.error"
             /\ effects'[1] = ToastError(
                    IF effects'[2][2] \in {Undef, Str("")}
                    THEN Str("Something went wrong")
                    ELSE effects'[2][2])]_vars

\* just after a call failed with an empty message: the fixed text is shown
C16_Witness ==
    /\ Len(effects) = 2
    /\ effects[2] = ConsoleError(Str(""))
    /\ effects[1] = ToastError(Str("Something went wrong"))

\* C17: the itemType state equals the form's type field in every reachable
\* state: initially, after toggles and after a Save & New reset.
C17_TypeInSync == form["type"] = Str(itemType)

\* just after a Save & New reset that left a type other than the initial one
C17_Witness ==
    /\ effects # <<>>
    /\ effects[Len(effects)] = Reset
    /\ itemType # initialItemType(initialData)
    /\ form["type"] = Str(itemType)

\* C18: the active tab is always one of the tabs shown: General, Pricing, or
\* Stock with item type 'product'; never a Stock tab that is hidden.
C18_ActiveTabShown == TriggerShown(activeTab)

\* a step of the Product / Service buttons: no other handler makes a step
\* that leaves the submits, the edits, the tab and the wholesale flag alone
\* and has no effect
Toggles ==
    /\ submits' = submits
    /\ edits' = edits
    /\ activeTab' = activeTab
    /\ showWholesale' = showWholesale
    /\ effects' = <<>>
    /\ calls' = <<>>

\* C19: a toggle of the item type changes only itemType and the form's type
\* field (and what is rendered from them): every other field, loading, the
\* wholesale flag and the errors are unchanged, no call is made, and a toggle
\* to the type already selected changes nothing.
C19_ToggleFrame ==
    [][Toggles
       => /\ \A f \in Fields \ {"type"} : form'[f] = form[f]
          /\ form'["type"] = Str(itemType')
          /\ loading' = loading
          /\ showWholesale' = showWholesale
          /\ errors' = errors
          /\ calls' = <<>>
          /\ view' = Render(loading, itemType')
          /\ itemType' = itemType => (form' = form /\ view' = view)]_vars

\* a product whose stock count was typed in, then switched to service: the
\* Stock tab is gone and the count is still in the form
C19_Witness ==
    /\ initialItemType(initialData) = "product"
    /\ itemType = "service"
    /\ form["stock_quantity"] # defaultValues(initialData)["stock_quantity"]
    /\ Truthy(form["stock_quantity"])
    /\ submits = <<>>
    /\ effects = <<>>
    /\ ~view.stockTrigger

\* the step of the Cancel button
Cancels == effects' # <<>> /\ effects'[1] = Back

\* C20 (as claimed): Cancel calls goBack once and nothing else, and after
\* Cancel the form never navigates to the inventory list or resets, even if a
\* save was pending.
C20_CancelIsFinal ==
    [][ /\ Cancels
           => /\ effects' = <<Back>>
              /\ calls' = <<>>
              /\ UNCHANGED <<form, itemType, loading, submits>>
        /\ ("back" \in past)
           => \A j \in DOMAIN effects' : effects'[j] \notin {Push, Reset} ]_vars

\* C20 (amended): Cancel calls goBack once and nothing else; it makes no call
\* and leaves the fields, the item type, the loading flag and every pending
\* submit as they were, so a pending save still completes afterwards.
C20_CancelOnlyGoesBack ==
    [][Cancels
       => /\ effects' = <<Back>>
          /\ calls' = <<>>
          /\ UNCHANGED <<form, itemType, loading, errors, showWholesale,
                         activeTab, view, submits>>]_vars

\* just after Cancel with a save in flight
C20_Witness ==
    /\ effects = <<Back>>
    /\ Pending # {}
    /\ loading

====
